---- MODULE Spec2Model ----
(***************************************************************************)
(* Model of the smart-garden bot (src/bot.py, nodemcu_http_controller.py): *)
(* the persisted settings record, the NodeMCU controller's connected flag, *)
(* the watering-eligibility check, the outcome recording after a watering  *)
(* and the chat handlers that drive them.                                  *)
(*                                                                         *)
(* Time is counted in whole hours since midnight of day 0; a date is the   *)
(* day number.  The device is the environment: every HTTP call's outcome   *)
(* is an input of the handler that makes the call.                         *)
(*                                                                         *)
(* config.json is the pair (file_exists, file): file is the JSON object as  *)
(* a map from keys to values, or Unreadable for content json.load fails    *)
(* on.  disk is how the next open/write of config.json ends.               *)
(*                                                                         *)
(* A handler runs within one reading of the clock (the device timeouts   *)
(* are 5 s and 30 s); the clock advances between messages.                 *)
(*                                                                         *)
(* tasks are the handlers suspended at an await; it is empty where the     *)
(* handlers are taken to run one after the other.                          *)
(***************************************************************************)
EXTENDS Integers, Sequences, FiniteSets, TLC

VARIABLES now, connected, file_exists, file, disk, pending_watering, tasks, last

vars == <<now, connected, file_exists, file, disk, pending_watering, tasks, last>>

-----------------------------------------------------------------------------
(* Bounds of the model *)

\* the clock stops at this hour (day 0 and the first hours of day 1)
MaxNow == 27
\* the clock is read every TickHours hours
TickHours == 3
\* no watering is requested once this many are recorded for the day
MaxCount == 2
MaxRaw == 1023
MaxRounds == 2

(* Program constants *)

HoursPerDay == 24
DangerHours == 6
WarningHours == 12
WetRaw == 310
DefaultDuration == 3
AirValue == 750
WaterValue == 305

\* Python's None, for the optional timestamp, the optional dates and an
\* absent moisture value
None == -1

-----------------------------------------------------------------------------
(* Dates and timestamps *)

\* datetime.now().date(): the calendar day of hour t
DateOf(t) == t \div HoursPerDay

\* (datetime.now() - last).total_seconds() / 3600
HoursSince(t, lastw) == t - lastw

-----------------------------------------------------------------------------
(* Settings store *)

DEFAULT_CONFIG ==
    [ auto_mode |-> FALSE,
      auto_mode_type |-> "smart",
      watering_duration |-> DefaultDuration,
      schedule_morning_time |-> "09:00",
      schedule_evening_time |-> "19:00",
      notifications |-> TRUE,
      moisture_threshold |-> 430,
      report_interval |-> 30,
      last_watering |-> None,
      watering_count_today |-> 0,
      last_watering_date |-> None,
      dont_ask_again_today |-> FALSE ]

\* content of config.json that json.load raises on (truncated, not JSON)
Unreadable == [ unreadable |-> TRUE ]

\* load_config over a store (fe: the file exists, f: its content as a map)
\* variation of LoadFrom: the stored record as it is, missing keys not filled
LoadFrom_no_fill(fe, f) ==
    IF ~fe \/ f = Unreadable THEN DEFAULT_CONFIG ELSE f

LoadFrom(fe, f) ==
    IF ~fe \/ f = Unreadable THEN DEFAULT_CONFIG
    ELSE IF (DOMAIN DEFAULT_CONFIG) \subseteq (DOMAIN f) THEN f
    ELSE [ k \in (DOMAIN f) \cup (DOMAIN DEFAULT_CONFIG) |->
             IF k \in DOMAIN f THEN f[k] ELSE DEFAULT_CONFIG[k] ]

load_config == LoadFrom(file_exists, file)

\* dict.get(key): None for a missing key
Get(cfg, k) == IF k \in DOMAIN cfg THEN cfg[k] ELSE None

\* how a save ends: the record written; open() raising, the file untouched;
\* or the write raising after open(..., 'w') truncated the file
DiskOutcomes == {"ok", "open_fails", "write_fails"}

\* the keys holding a bool and the keys holding a str; the others hold an
\* int or None
BoolKeys == {"auto_mode", "notifications", "dont_ask_again_today"}
StrKeys == {"auto_mode_type", "schedule_morning_time", "schedule_evening_time"}

\* json.dump: the JSON value written for config[k] = v
json_value(k, v) ==
    IF k \in BoolKeys THEN (IF v THEN [t |-> "true"] ELSE [t |-> "false"])
    ELSE IF k \in StrKeys THEN [t |-> "string", v |-> v]
    ELSE IF v = None THEN [t |-> "null"]
    ELSE [t |-> "number", v |-> v]

\* variation of python_value: null is read as 0
python_value_null_as_zero(j) ==
    CASE j.t = "true" -> TRUE
      [] j.t = "false" -> FALSE
      [] j.t = "null" -> 0
      [] OTHER -> j.v

\* json.load: the Python value read for a JSON value
python_value(j) ==
    CASE j.t = "true" -> TRUE
      [] j.t = "false" -> FALSE
      [] j.t = "null" -> None
      [] OTHER -> j.v

\* json.dump of a dict: the JSON object, key by key
json_dump(config) == [ k \in DOMAIN config |-> json_value(k, config[k]) ]

\* json.load of a JSON object: the dict, key by key
json_load(text) == [ k \in DOMAIN text |-> python_value(text[k]) ]

\* save_config(config) on store (fe, f) with the disk in state d: the
\* returned flag and the store afterwards; f is config.json as json.load
\* reads it
save_config(fe, f, config, d) ==
    IF d = "ok" THEN [ok |-> TRUE, fe |-> TRUE, f |-> json_load(json_dump(config))]
    ELSE IF d = "open_fails" THEN [ok |-> FALSE, fe |-> fe, f |-> f]
    ELSE [ok |-> FALSE, fe |-> TRUE, f |-> Unreadable]

\* update_config(new_settings) on store (fe, f): the record returned and the
\* outcome of its save_config
update_config(fe, f, new_settings, d) ==
    LET config == LoadFrom(fe, f)
        merged == [ k \in (DOMAIN config) \cup (DOMAIN new_settings) |->
                      IF k \in DOMAIN new_settings THEN new_settings[k]
                      ELSE config[k] ]
    IN  [ config |-> merged, st |-> save_config(fe, f, merged, d) ]

\* a function that found store (fe, f) and leaves (fe2, f2) called
\* save_config
Saved(fe, f, fe2, f2) == fe2 # fe \/ f2 # f

\* the store after a step that calls save_config(config) when wrote holds
Store(wrote, fe, f, config, d) ==
    IF wrote THEN save_config(fe, f, config, d)
    ELSE [ok |-> TRUE, fe |-> fe, f |-> f]

\* config[key] = value / config.update({key: value})
Put(cfg, k, v) ==
    IF k \in DOMAIN cfg
    THEN [ cfg EXCEPT ![k] = v ]
    ELSE [ x \in (DOMAIN cfg) \cup {k} |-> IF x = k THEN v ELSE cfg[x] ]

-----------------------------------------------------------------------------
(* Device *)

RawValues == {300, 309, 310}

\* outcomes of GET /status in get_moisture
SensorOutcomes ==
    { [kind |-> "ok", raw |-> r] : r \in RawValues }
      \cup { [kind |-> "no_moisture", raw |-> None],
             [kind |-> "non200", raw |-> None],
             [kind |-> "exception", raw |-> None] }

\* outcomes of the sensor read start_watering makes for its report: all
\* that stays of it is whether get_moisture raised
ReportSensorOutcomes ==
    { s \in SensorOutcomes : s.kind \in {"no_moisture", "exception"} }

\* outcomes of GET /water in NodeMCUHTTPController.water_plant
ActuatorOutcomes == {"ok", "non200", "exception"}

\* NodeMCUHTTPController.get_moisture: the raw value returned (None when
\* there is none) and the connected flag afterwards
get_moisture(conn, s) ==
    IF ~conn THEN [raw |-> None, conn |-> conn]
    ELSE IF s.kind = "ok" THEN [raw |-> s.raw, conn |-> conn]
    ELSE IF s.kind = "exception" THEN [raw |-> None, conn |-> FALSE]
    ELSE [raw |-> None, conn |-> conn]

\* variation of get_sensor_data: a read is tried without a connection and
\* an answer restores the connected flag
get_sensor_data_reconnects(conn, s) ==
    IF s.kind = "ok" THEN [raw |-> s.raw, conn |-> TRUE]
    ELSE IF s.kind = "exception" THEN [raw |-> None, conn |-> FALSE]
    ELSE [raw |-> None, conn |-> conn]

\* get_sensor_data: raw is None when the reading is None
get_sensor_data(conn, s) ==
    IF ~conn THEN [raw |-> None, conn |-> conn]
    ELSE get_moisture(conn, s)

\* NodeMCUHTTPController.water_plant: success flag
nodemcu_water_plant(conn, a) == conn /\ a = "ok"

\* int(x) of the quotient n / d, d > 0: truncation toward zero
Trunc(n, d) == IF n >= 0 THEN n \div d ELSE 0 - ((0 - n) \div d)

Min(a, b) == IF a <= b THEN a ELSE b
Max(a, b) == IF a >= b THEN a ELSE b

\* variation of moisture_percent: rounds to the nearest integer
moisture_percent_rounded(raw) ==
    Max(0, Min(100, Trunc(2 * (AirValue - raw) * 100 + (AirValue - WaterValue),
                          2 * (AirValue - WaterValue))))

\* get_sensor_data, lines 134-137: the moisture percent of a raw value
moisture_percent(raw) ==
    Max(0, Min(100, Trunc((AirValue - raw) * 100, AirValue - WaterValue)))

\* variation of get_moisture_status: the boundary 430 falls in the band below
get_moisture_status_strict(raw) ==
    IF raw >= 530 THEN "VERY_DRY"
    ELSE IF raw > 430 THEN "DRY"
    ELSE IF raw >= 350 THEN "NORMAL"
    ELSE IF raw >= 320 THEN "IDEAL"
    ELSE IF raw >= 310 THEN "MOIST"
    ELSE IF raw >= 305 THEN "OVERWATERED"
    ELSE "TOO_WET"

\* get_moisture_status: the band of a raw value
get_moisture_status(raw) ==
    IF raw >= 530 THEN "VERY_DRY"
    ELSE IF raw >= 430 THEN "DRY"
    ELSE IF raw >= 350 THEN "NORMAL"
    ELSE IF raw >= 320 THEN "IDEAL"
    ELSE IF raw >= 310 THEN "MOIST"
    ELSE IF raw >= 305 THEN "OVERWATERED"
    ELSE "TOO_WET"

-----------------------------------------------------------------------------
(* Watering eligibility: check_watering_restrictions *)

\* variation of skip_reset: the new day stores the date and keeps the flag
skip_reset_keeps_flag(config, today) ==
    IF Get(config, "dont_ask_again_date") # today
    THEN Put(config, "dont_ask_again_date", today)
    ELSE config

\* lines 181-186: the config after the new-day reset of the skip flag
skip_reset(config, today) ==
    IF Get(config, "dont_ask_again_date") # today
    THEN Put(Put(config, "dont_ask_again_today", FALSE),
             "dont_ask_again_date", today)
    ELSE config

\* variation of frequency_level: exactly 6 hours still counts as too soon
frequency_level_inclusive(config, t) ==
    IF config["last_watering_date"] # None
       /\ config["last_watering_date"] = DateOf(t)
       /\ config["watering_count_today"] >= 1
    THEN IF config["last_watering"] = None THEN "raise"
         ELSE IF HoursSince(t, config["last_watering"]) <= DangerHours THEN "danger"
         ELSE IF HoursSince(t, config["last_watering"]) < WarningHours THEN "warning"
         ELSE "info"
    ELSE "ok"

\* variation of frequency_level: the elapsed hours decide, whatever the date
frequency_level_ignores_date(config, t) ==
    IF config["last_watering_date"] # None
       /\ config["watering_count_today"] >= 1
    THEN IF config["last_watering"] = None THEN "raise"
         ELSE IF HoursSince(t, config["last_watering"]) < DangerHours THEN "danger"
         ELSE IF HoursSince(t, config["last_watering"]) < WarningHours THEN "warning"
         ELSE "info"
    ELSE "ok"

\* lines 192-209: warning_level after the check of the last watering date;
\* "raise" when fromisoformat(None) raises (same-day date without timestamp)
frequency_level(config, t) ==
    IF config["last_watering_date"] # None
       /\ config["last_watering_date"] = DateOf(t)
       /\ config["watering_count_today"] >= 1
    THEN IF config["last_watering"] = None THEN "raise"
         ELSE IF HoursSince(t, config["last_watering"]) < DangerHours THEN "danger"
         ELSE IF HoursSince(t, config["last_watering"]) < WarningHours THEN "warning"
         ELSE "info"
    ELSE "ok"

\* line 216: the soil is already wet
too_wet(raw) == raw < WetRaw

\* variation of moisture_level: wet soil sets danger only when the
\* frequency check gave no warning
moisture_level_keeps_warning(freq, raw) ==
    IF too_wet(raw) /\ freq = "ok" THEN "danger" ELSE freq

\* lines 216-226: warning_level after the moisture check
moisture_level(freq, raw) == IF too_wet(raw) THEN "danger" ELSE freq

\* the verdict (allowed, level), which messages it carries, whether the
\* sensor was read, and the store and connected flag afterwards
Verdict(allowed, level, freq, wet, read, fe, f, conn) ==
    [ allowed |-> allowed, level |-> level, freq_msg |-> freq, wet_msg |-> wet,
      sensor_read |-> read, fe |-> fe, f |-> f, conn |-> conn ]

\* variation of check_after_reset: wet soil refuses the watering
check_after_reset_wet_refuses(config, fe, f, conn, t, s) ==
    IF config["dont_ask_again_today"]
    THEN Verdict(TRUE, "ok", "ok", FALSE, FALSE, fe, f, conn)
    ELSE LET freq == frequency_level(config, t)
             sd   == get_sensor_data(conn, s)
         IN  IF freq = "raise"
             THEN Verdict(FALSE, "raise", "raise", FALSE, FALSE, fe, f, conn)
             ELSE IF sd.raw = None
             THEN Verdict(FALSE, "danger", freq, FALSE, TRUE, fe, f, sd.conn)
             ELSE Verdict(~too_wet(sd.raw), moisture_level(freq, sd.raw), freq,
                          too_wet(sd.raw), TRUE, fe, f, sd.conn)

\* variation of check_after_reset: the bypass is taken only after the
\* moisture check found the soil not wet
check_after_reset_bypass_after_sensor(config, fe, f, conn, t, s) ==
    LET freq == frequency_level(config, t)
        sd   == get_sensor_data(conn, s)
    IN  IF config["dont_ask_again_today"] /\ sd.raw # None /\ ~too_wet(sd.raw)
        THEN Verdict(TRUE, "ok", "ok", FALSE, TRUE, fe, f, sd.conn)
        ELSE IF freq = "raise"
        THEN Verdict(FALSE, "raise", "raise", FALSE, FALSE, fe, f, conn)
        ELSE IF sd.raw = None
        THEN Verdict(FALSE, "danger", freq, FALSE, TRUE, fe, f, sd.conn)
        ELSE Verdict(TRUE, moisture_level(freq, sd.raw), freq,
                     too_wet(sd.raw), TRUE, fe, f, sd.conn)

\* lines 188-226, after the connection check and the skip reset
check_after_reset(config, fe, f, conn, t, s) ==
    IF config["dont_ask_again_today"]
    THEN Verdict(TRUE, "ok", "ok", FALSE, FALSE, fe, f, conn)
    ELSE LET freq == frequency_level(config, t)
             sd   == get_sensor_data(conn, s)
         IN  IF freq = "raise"
             THEN Verdict(FALSE, "raise", "raise", FALSE, FALSE, fe, f, conn)
             ELSE IF sd.raw = None
             THEN Verdict(FALSE, "danger", freq, FALSE, TRUE, fe, f, sd.conn)
             ELSE Verdict(TRUE, moisture_level(freq, sd.raw), freq,
                          too_wet(sd.raw), TRUE, fe, f, sd.conn)

\* variation of check_watering_restrictions: the skip reset is saved before
\* the connection is looked at
check_watering_restrictions_reset_first(fe, f, conn, t, s) ==
    LET config0 == LoadFrom(fe, f)
        config  == skip_reset(config0, DateOf(t))
        wrote   == Get(config0, "dont_ask_again_date") # DateOf(t)
    IN  IF ~conn
        THEN Verdict(FALSE, "danger", "ok", FALSE, FALSE, fe \/ wrote,
                     IF wrote THEN config ELSE f, conn)
        ELSE check_after_reset(config, fe \/ wrote,
                               IF wrote THEN config ELSE f, conn, t, s)

\* variation of check_watering_restrictions: an evaluation on a day other
\* than last_watering_date also sets watering_count_today to 0
check_watering_restrictions_resets_counter(fe, f, conn, t, s) ==
    LET config0 == LoadFrom(fe, f)
        stale   == config0["last_watering_date"] # DateOf(t)
        config1 == IF stale THEN Put(config0, "watering_count_today", 0)
                   ELSE config0
        config  == skip_reset(config1, DateOf(t))
        wrote   == Get(config0, "dont_ask_again_date") # DateOf(t)
    IN  IF ~conn
        THEN Verdict(FALSE, "danger", "ok", FALSE, FALSE, fe, f, conn)
        ELSE check_after_reset(config, fe \/ wrote,
                               IF wrote THEN config ELSE f, conn, t, s)

\* check_watering_restrictions on store (fe, f) at hour t, the device
\* answering the sensor read with s
check_watering_restrictions(fe, f, conn, t, s) ==
    LET config0 == LoadFrom(fe, f)
        config  == skip_reset(config0, DateOf(t))
        wrote   == Get(config0, "dont_ask_again_date") # DateOf(t)
    IN  IF ~conn
        THEN Verdict(FALSE, "danger", "ok", FALSE, FALSE, fe, f, conn)
        ELSE check_after_reset(config, fe \/ wrote,
                               IF wrote THEN config ELSE f, conn, t, s)

-----------------------------------------------------------------------------
(* Outcome recording: water_plant and start_watering *)

\* variation of record_watering: the counter is not reset on a new day
record_watering_no_reset(config, t) ==
    LET c1 == Put(config, "last_watering", t)
        c2 == Put(c1, "last_watering_date", DateOf(t))
    IN  Put(c2, "watering_count_today", c2["watering_count_today"] + 1)

\* variation of record_watering: the date of the watering is not stored
record_watering_no_date(config, t) ==
    LET c0 == IF config["last_watering_date"] # DateOf(t)
              THEN Put(config, "watering_count_today", 0)
              ELSE config
        c1 == Put(c0, "last_watering", t)
    IN  Put(c1, "watering_count_today", c1["watering_count_today"] + 1)

\* lines 353-362: the history update after a successful actuator call
record_watering(config, t) ==
    LET c0 == IF config["last_watering_date"] # DateOf(t)
              THEN Put(config, "watering_count_today", 0)
              ELSE config
        c1 == Put(c0, "last_watering", t)
        c2 == Put(c1, "last_watering_date", DateOf(t))
    IN  Put(c2, "watering_count_today", c2["watering_count_today"] + 1)

\* variation of water_plant: the history is updated whenever the device was
\* contacted, whatever it answered
water_plant_records_failure(fe, f, conn, a, t) ==
    IF ~conn
    THEN [success |-> FALSE, called |-> FALSE, fe |-> fe, f |-> f]
    ELSE [success |-> nodemcu_water_plant(conn, a), called |-> TRUE, fe |-> TRUE,
          f |-> record_watering(LoadFrom(fe, f), t)]

\* bot.water_plant: success flag, whether the device was contacted, and
\* the store afterwards
water_plant(fe, f, conn, a, t) ==
    IF ~conn
    THEN [success |-> FALSE, called |-> FALSE, fe |-> fe, f |-> f]
    ELSE IF nodemcu_water_plant(conn, a)
    THEN [success |-> TRUE, called |-> TRUE, fe |-> TRUE,
          f |-> record_watering(LoadFrom(fe, f), t)]
    ELSE [success |-> FALSE, called |-> TRUE, fe |-> fe, f |-> f]

\* start_watering: water_plant, then a sensor read for the report when the
\* watering succeeded
start_watering(fe, f, conn, a, s2, t) ==
    LET w == water_plant(fe, f, conn, a, t)
    IN  [ success |-> w.success, called |-> w.called, fe |-> w.fe, f |-> w.f,
          conn |-> IF w.success THEN get_sensor_data(conn, s2).conn ELSE conn ]

-----------------------------------------------------------------------------
(* Chat handlers: the branches of handle_message *)

\* free-text durations of a message "Полить <N> сек"; None when the text
\* has no number at that place
ParsedDurations == {None, 7}

\* what the last handler did: the state it started from, the verdict of
\* its evaluation (if any), the reading get_sensor_data had to offer, and
\* the watering it started
NoVerdict ==
    [ evaluated |-> FALSE, allowed |-> FALSE, level |-> "none",
      freq_msg |-> "none", wet_msg |-> FALSE, reading |-> None ]

Evaluated(v, conn, s) ==
    [ evaluated |-> TRUE, allowed |-> v.allowed, level |-> v.level,
      freq_msg |-> v.freq_msg, wet_msg |-> v.wet_msg,
      reading |-> get_sensor_data(conn, s).raw ]

NoWatering == [ started |-> FALSE, called |-> FALSE, success |-> FALSE, duration |-> 0 ]

Watering(w, duration) ==
    [ started |-> TRUE, called |-> w.called, success |-> w.success,
      duration |-> duration ]

\* the store and the connected flag as the handler found them
Entry == [ fe |-> file_exists, f |-> file, conn |-> connected ]

\* the plant status report: not sent when there is no reading
NoReport ==
    [ shown |-> FALSE, waterings_today |-> 0, percent |-> 0, status |-> "none" ]

\* lines 450-471: the figures of the report, from the reading and from the
\* config handle_message loaded on entry
StatusReport(config, raw) ==
    [ shown |-> TRUE, waterings_today |-> config["watering_count_today"],
      percent |-> moisture_percent(raw), status |-> get_moisture_status(raw) ]

\* writers: the functions that called save_config while the handler ran;
\* returned: the record update_config returned, if it was called
Last(op, e, w) ==
    [ op |-> op, entry |-> Entry, eval |-> e, water |-> w,
      writers |-> {}, report |-> NoReport, returned |-> << >> ]

\* the watering counter is capped: no request once MaxCount are recorded today
CountBelowMax ==
    \/ load_config["last_watering_date"] # DateOf(now)
    \/ load_config["watering_count_today"] < MaxCount

\* start_watering called from a handler on store (fe, f): the device answers
\* the actuator call with some a and, after a success, the sensor read with
\* some s2; ws are the writers of the handler so far
StartWatering(op, e, fe, f, conn, duration, ws) ==
    \E a \in ActuatorOutcomes :
       \E s2 \in (IF nodemcu_water_plant(conn, a) THEN ReportSensorOutcomes
                  ELSE {CHOOSE x \in ReportSensorOutcomes : TRUE}) :
          LET w  == start_watering(fe, f, conn, a, s2, now)
              wr == Saved(fe, f, w.fe, w.f)
              st == Store(wr, fe, f, w.f, disk)
          IN  /\ file_exists' = st.fe
              /\ file' = st.f
              /\ connected' = w.conn
              /\ last' = [ Last(op, e, Watering(w, duration)) EXCEPT
                             !.writers = ws \cup (IF wr THEN {"water_plant"}
                                                  ELSE {}) ]

\* variation of RequestWatering: only danger and warning ask for a
\* confirmation
RequestWatering_info_starts(op, duration) ==
    \E s \in SensorOutcomes :
       LET v  == check_watering_restrictions(file_exists, file, connected, now, s)
           e  == Evaluated(v, connected, s)
           wr == Saved(file_exists, file, v.fe, v.f)
           st == Store(wr, file_exists, file, v.f, disk)
           ws == IF wr THEN {"check_watering_restrictions"} ELSE {}
       IN  IF ~v.allowed
           THEN /\ file_exists' = st.fe
                /\ file' = st.f
                /\ connected' = v.conn
                /\ UNCHANGED pending_watering
                /\ last' = [ Last(op, e, NoWatering) EXCEPT !.writers = ws ]
           ELSE IF v.level \in {"danger", "warning"}
           THEN /\ file_exists' = st.fe
                /\ file' = st.f
                /\ connected' = v.conn
                /\ pending_watering' =
                      << [duration |-> duration, warning_level |-> v.level] >>
                /\ last' = [ Last(op, e, NoWatering) EXCEPT !.writers = ws ]
           ELSE /\ StartWatering(op, e, st.fe, st.f, v.conn, duration, ws)
                /\ UNCHANGED pending_watering

\* lines 492-518 and 624-647: evaluate, then refuse, ask for confirmation
\* or start the watering
RequestWatering(op, duration) ==
    \E s \in SensorOutcomes :
       LET v  == check_watering_restrictions(file_exists, file, connected, now, s)
           e  == Evaluated(v, connected, s)
           wr == Saved(file_exists, file, v.fe, v.f)
           st == Store(wr, file_exists, file, v.f, disk)
           ws == IF wr THEN {"check_watering_restrictions"} ELSE {}
       IN  IF ~v.allowed
           THEN /\ file_exists' = st.fe
                /\ file' = st.f
                /\ connected' = v.conn
                /\ UNCHANGED pending_watering
                /\ last' = [ Last(op, e, NoWatering) EXCEPT !.writers = ws ]
           ELSE IF v.level \in {"danger", "warning", "info"}
           THEN /\ file_exists' = st.fe
                /\ file' = st.f
                /\ connected' = v.conn
                /\ pending_watering' =
                      << [duration |-> duration, warning_level |-> v.level] >>
                /\ last' = [ Last(op, e, NoWatering) EXCEPT !.writers = ws ]
           ELSE /\ StartWatering(op, e, st.fe, st.f, v.conn, duration, ws)
                /\ UNCHANGED pending_watering

\* '💦 Полить растение' (lines 490-518)
MsgWaterPlant ==
    /\ CountBelowMax
    /\ RequestWatering("water_plant", load_config["watering_duration"])
    /\ UNCHANGED <<tasks, now, disk>>

\* '💦 Полить <N> сек' (lines 616-647)
MsgWaterN ==
    /\ CountBelowMax
    /\ \E n \in ParsedDurations :
         RequestWatering("water_n",
                         IF n = None THEN load_config["watering_duration"] ELSE n)
    /\ UNCHANGED <<tasks, now, disk>>

\* '❌ Отмена' (lines 649-655) and '❌ НЕТ, отменить' (lines 669-675)
MsgCancel ==
    /\ \E op \in {"cancel", "no"} :
         /\ pending_watering' = << >>
         /\ last' = Last(op, NoVerdict, NoWatering)
    /\ UNCHANGED <<tasks, now, connected, file_exists, file, disk>>

\* variation of MsgYes: the pending request is left in place
MsgYes_keeps_pending ==
    /\ CountBelowMax
    /\ IF pending_watering # << >>
       THEN /\ UNCHANGED pending_watering
            /\ StartWatering("yes", NoVerdict, file_exists, file, connected,
                             pending_watering[1].duration, {})
       ELSE /\ last' = Last("yes", NoVerdict, NoWatering)
            /\ UNCHANGED <<connected, file_exists, file, pending_watering>>
    /\ UNCHANGED <<tasks, now, disk>>

\* '✅ ДА, полить' (lines 658-667)
MsgYes ==
    /\ CountBelowMax
    /\ IF pending_watering # << >>
       THEN /\ pending_watering' = << >>
            /\ StartWatering("yes", NoVerdict, file_exists, file, connected,
                             pending_watering[1].duration, {})
       ELSE /\ last' = Last("yes", NoVerdict, NoWatering)
            /\ UNCHANGED <<connected, file_exists, file, pending_watering>>
    /\ UNCHANGED <<tasks, now, disk>>

\* variation of set_dont_ask: the flag is set, the date is not
set_dont_ask_flag_only(config, today) ==
    Put(config, "dont_ask_again_today", TRUE)

\* lines 680-683: the skip flag set for today
set_dont_ask(config, today) ==
    Put(Put(config, "dont_ask_again_today", TRUE), "dont_ask_again_date", today)

\* '🔔 Больше не спрашивать сегодня' (lines 677-692)
MsgDontAsk ==
    /\ CountBelowMax
    /\ IF pending_watering # << >>
       THEN LET st == Store(TRUE, file_exists, file,
                            set_dont_ask(load_config, DateOf(now)), disk)
            IN  /\ pending_watering' = << >>
                /\ StartWatering("dont_ask", NoVerdict, st.fe, st.f, connected,
                                 pending_watering[1].duration, {"handle_message"})
       ELSE /\ last' = Last("dont_ask", NoVerdict, NoWatering)
            /\ UNCHANGED <<connected, file_exists, file, pending_watering>>
    /\ UNCHANGED <<tasks, now, disk>>

\* '🌱 Статус растения' (lines 430-488) when the device answers with one of
\* outcomes: reads the sensor, writes nothing
PlantStatus(outcomes) ==
    /\ \E s \in outcomes :
         LET sd == get_sensor_data(connected, s)
         IN  /\ connected' = sd.conn
             /\ last' = [ Last("status", [NoVerdict EXCEPT !.reading = sd.raw],
                               NoWatering)
                          EXCEPT !.report = IF sd.raw = None THEN NoReport
                                            ELSE StatusReport(load_config, sd.raw) ]
    /\ UNCHANGED <<tasks, now, file_exists, file, disk, pending_watering>>

MsgPlantStatus == PlantStatus(SensorOutcomes)

\* the clock advances between messages
Tick ==
    /\ now + TickHours <= MaxNow
    /\ now' = now + TickHours
    /\ last' = Last("tick", NoVerdict, NoWatering)
    /\ UNCHANGED <<tasks, connected, file_exists, file, disk, pending_watering>>

-----------------------------------------------------------------------------
(* The program *)

\* main(): connect() succeeded or failed, no config.json yet, no pending
\* watering; every save succeeds
Init ==
    /\ now = 0
    /\ connected \in BOOLEAN
    /\ file_exists = FALSE
    /\ file = DEFAULT_CONFIG
    /\ disk = "ok"
    /\ tasks = << >>
    /\ pending_watering = << >>
    /\ last = Last("start", NoVerdict, NoWatering)

Next ==
    \/ MsgWaterPlant
    \/ MsgWaterN
    \/ MsgCancel
    \/ MsgYes
    \/ MsgDontAsk
    \/ MsgPlantStatus
    \/ Tick

Spec == Init /\ [][Next]_vars

-----------------------------------------------------------------------------
(* The program on a disk whose writes may fail *)

\* the button of the notifications menu, a text starting with '🔔' (lines
\* 896-906): toggles the notifications setting
MsgNotifications ==
    /\ LET u == update_config(file_exists, file,
                              [notifications |-> ~load_config["notifications"]],
                              disk)
       IN  /\ file_exists' = u.st.fe
           /\ file' = u.st.f
           /\ last' = [ Last("notifications", NoVerdict, NoWatering) EXCEPT
                          !.writers = {"update_config"},
                          !.returned = u.config ]
    /\ UNCHANGED <<tasks, now, connected, disk, pending_watering>>

\* the disk fills up, becomes read-only, or recovers
DiskChange ==
    /\ \E d \in DiskOutcomes \ {disk} : disk' = d
    /\ last' = Last("disk", NoVerdict, NoWatering)
    /\ UNCHANGED <<tasks, now, connected, file_exists, file, pending_watering>>

NextIOFail ==
    \/ MsgWaterPlant
    \/ MsgDontAsk
    \/ MsgNotifications
    \/ Tick
    \/ DiskChange

SpecIOFail == Init /\ [][NextIOFail]_vars

-----------------------------------------------------------------------------
(* check_watering_restrictions on its own, called again and again          *)

\* no watering on record, one from yesterday evening, one or more today at
\* 0:00
EvalHistories ==
    { [last_watering |-> None, last_watering_date |-> None, count |-> 0] }
      \cup { [last_watering |-> lw, last_watering_date |-> DateOf(lw), count |-> c] :
               lw \in {0 - TickHours, 0}, c \in 1..MaxCount }

\* the skip flag never set, or set or reset yesterday or today
EvalSkips ==
    { [flag |-> FALSE, date |-> None] }
      \cup { [flag |-> b, date |-> d] : b \in BOOLEAN, d \in {0 - 1, 0} }

\* the settings with a history and a skip flag
EvalRecord(h, k) ==
    LET c1 == [DEFAULT_CONFIG EXCEPT !["last_watering"] = h.last_watering,
                                     !["last_watering_date"] = h.last_watering_date,
                                     !["watering_count_today"] = h.count,
                                     !["dont_ask_again_today"] = k.flag]
    IN  IF k.date = None THEN c1 ELSE Put(c1, "dont_ask_again_date", k.date)

\* an evaluation that did not happen
NoEvaluation ==
    [ evaluated |-> FALSE, time |-> 0, sensor |-> [kind |-> "none", raw |-> None],
      entry |-> [ fe |-> FALSE, f |-> DEFAULT_CONFIG, conn |-> FALSE ],
      allowed |-> FALSE, level |-> "none" ]

\* an evaluation at hour t on the store and connection of entry, the device
\* answering s: its verdict
AnEvaluation(t, s, entry, v) ==
    [ evaluated |-> TRUE, time |-> t, sensor |-> s, entry |-> entry,
      allowed |-> v.allowed, level |-> v.level ]

\* the last two evaluations
InitEval ==
    /\ now = 0
    /\ connected \in BOOLEAN
    /\ file_exists = TRUE
    /\ \E h \in EvalHistories : \E k \in EvalSkips : file = EvalRecord(h, k)
    /\ disk = "ok"
    /\ tasks = << >>
    /\ pending_watering = << >>
    /\ last = [ op |-> "start", cur |-> NoEvaluation, prev |-> NoEvaluation ]

\* check_watering_restrictions()
Evaluate ==
    /\ \E s \in SensorOutcomes :
         LET v  == check_watering_restrictions(file_exists, file, connected, now, s)
             st == Store(Saved(file_exists, file, v.fe, v.f),
                         file_exists, file, v.f, disk)
         IN  /\ file_exists' = st.fe
             /\ file' = st.f
             /\ connected' = v.conn
             /\ last' = [ op |-> "evaluate",
                          cur |-> AnEvaluation(now, s, Entry, v),
                          prev |-> [last.cur EXCEPT !.entry = NoEvaluation.entry] ]
    /\ UNCHANGED <<tasks, now, disk, pending_watering>>

\* time passes between two evaluations
EvalTick ==
    /\ now + TickHours <= MaxNow
    /\ now' = now + TickHours
    /\ last' = [last EXCEPT !.op = "tick"]
    /\ UNCHANGED <<tasks, connected, file_exists, file, disk, pending_watering>>

NextEval == Evaluate \/ EvalTick

SpecEval == InitEval /\ [][NextEval]_vars

-----------------------------------------------------------------------------
(* The settings store on its own: load_config and save_config on any       *)
(* config.json the program may find                                        *)

\* a stored value for every key, none of them the default
StoredRecord ==
    [ auto_mode |-> TRUE,
      auto_mode_type |-> "schedule",
      watering_duration |-> 5,
      schedule_morning_time |-> "08:00",
      schedule_evening_time |-> "20:00",
      notifications |-> FALSE,
      moisture_threshold |-> 400,
      report_interval |-> 60,
      last_watering |-> 0,
      watering_count_today |-> 1,
      last_watering_date |-> 0,
      dont_ask_again_today |-> TRUE,
      dont_ask_again_date |-> 0 ]

\* the JSON objects holding some of the keys
PartialRecords ==
    { [ k \in K |-> StoredRecord[k] ] : K \in SUBSET (DOMAIN StoredRecord) }

\* what StoreLoad and StoreRoundTrip did: the store found, the record
\* load_config returned, the round trips made so far
StoreLast(op, rounds) ==
    [ op |-> op, entry |-> Entry, result |-> load_config, rounds |-> rounds ]

\* config.json is absent, unreadable, or holds some of the keys
InitStore ==
    /\ now = 0
    /\ connected = FALSE
    /\ \/ file_exists = FALSE /\ file = DEFAULT_CONFIG
       \/ file_exists = TRUE /\ file \in {Unreadable} \cup PartialRecords
    /\ disk = "ok"
    /\ tasks = << >>
    /\ pending_watering = << >>
    /\ last = StoreLast("start", 0)

\* load_config()
StoreLoad ==
    /\ last' = StoreLast("load", last.rounds)
    /\ UNCHANGED <<tasks, now, connected, file_exists, file, disk, pending_watering>>

\* save_config(load_config()): update_config with nothing to change
StoreRoundTrip ==
    /\ last.rounds < MaxRounds
    /\ LET st == save_config(file_exists, file, load_config, disk)
       IN  /\ file_exists' = st.fe
           /\ file' = st.f
    /\ last' = StoreLast("round_trip", last.rounds + 1)
    /\ UNCHANGED <<tasks, now, connected, disk, pending_watering>>

NextStore == StoreLoad \/ StoreRoundTrip

SpecStore == InitStore /\ [][NextStore]_vars

-----------------------------------------------------------------------------
(* The plant status report over the range of the sensor *)

\* GET /status answers with any raw value of the range, or fails
AllSensorOutcomes ==
    { [kind |-> "ok", raw |-> r] : r \in 0..MaxRaw }
      \cup { [kind |-> "non200", raw |-> None],
             [kind |-> "exception", raw |-> None] }

MsgPlantStatusAnyRaw == PlantStatus(AllSensorOutcomes)

SpecSensor == Init /\ [][MsgPlantStatusAnyRaw]_vars

-----------------------------------------------------------------------------
(* Handlers interleaved at their suspension points                         *)
(*                                                                         *)
(* handle_message is a coroutine: it gives up control only at an await of  *)
(* reply_text.  The code between two awaits runs as one step.  tasks are   *)
(* the handlers in flight; a watering handler is suspended once, at the    *)
(* reply of start_watering (line 370), between its evaluation and the call *)
(* of water_plant (line 380), whose body has no await.                     *)

\* handlers that can be in flight at once
MaxTasks == 2

Tasks == 1..MaxTasks

\* held: the store as handle_message loaded it on entry (line 425);
\* seen: the waterings recorded when the handler started
IdleTask == [ pc |-> "idle", duration |-> 0, held |-> << >>, seen |-> 0 ]

Suspended(duration) ==
    [ pc |-> "start_watering", duration |-> duration,
      held |-> [fe |-> file_exists, f |-> file], seen |-> last.waterings ]

\* what the last step did when it recorded a watering, the waterings
\* recorded so far and the settings the settings handlers chose last
NoRecording ==
    [ success |-> FALSE, stale |-> FALSE, held_changed |-> FALSE,
      waterings |-> last.waterings, chosen |-> last.chosen ]

\* variation of LoadAtRecord: the record is the one loaded before the await
LoadAtRecord_before_await(held, current) == held

\* line 353: water_plant loads config.json after the actuator call, not
\* the record some handler loaded before it was suspended
LoadAtRecord(held, current) == current

\* '💦 Полить растение' up to its first await (lines 423-518): refused or in
\* need of a confirmation it replies and returns, else it is suspended in
\* start_watering
HandlerWaterPlant(t) ==
    /\ tasks[t].pc = "idle"
    /\ CountBelowMax
    /\ \E s \in SensorOutcomes :
         LET v  == check_watering_restrictions(file_exists, file, connected, now, s)
             wr == Saved(file_exists, file, v.fe, v.f)
             st == Store(wr, file_exists, file, v.f, disk)
         IN  /\ file_exists' = st.fe
             /\ file' = st.f
             /\ connected' = v.conn
             /\ IF ~v.allowed
                THEN UNCHANGED <<pending_watering, tasks>>
                ELSE IF v.level \in {"danger", "warning", "info"}
                THEN /\ pending_watering' =
                           << [duration |-> LoadFrom(st.fe, st.f)["watering_duration"],
                               warning_level |-> v.level] >>
                     /\ UNCHANGED tasks
                ELSE /\ tasks' = [tasks EXCEPT ![t] =
                           Suspended(LoadFrom(st.fe, st.f)["watering_duration"])]
                     /\ UNCHANGED pending_watering
    /\ last' = NoRecording
    /\ UNCHANGED <<now, disk>>

\* '✅ ДА, полить' up to its first await (lines 658-667)
HandlerYes(t) ==
    /\ tasks[t].pc = "idle"
    /\ CountBelowMax
    /\ pending_watering # << >>
    /\ pending_watering' = << >>
    /\ tasks' = [tasks EXCEPT ![t] = Suspended(pending_watering[1].duration)]
    /\ last' = NoRecording
    /\ UNCHANGED <<now, connected, file_exists, file, disk>>

\* '🔔 Больше не спрашивать сегодня' up to its first await (lines 677-692)
HandlerDontAsk(t) ==
    /\ tasks[t].pc = "idle"
    /\ CountBelowMax
    /\ pending_watering # << >>
    /\ LET st == Store(TRUE, file_exists, file,
                       set_dont_ask(load_config, DateOf(now)), disk)
       IN  /\ file_exists' = st.fe
           /\ file' = st.f
    /\ pending_watering' = << >>
    /\ tasks' = [tasks EXCEPT ![t] = Suspended(pending_watering[1].duration)]
    /\ last' = NoRecording
    /\ UNCHANGED <<now, connected, disk>>

\* the watering duration buttons (lines 865-893): update_config before the
\* first await
HandlerSetting(t) ==
    /\ tasks[t].pc = "idle"
    /\ \E new_settings \in { [watering_duration |-> d] : d \in {3, 5, 10} } :
         LET u == update_config(file_exists, file, new_settings, disk)
         IN  /\ file_exists' = u.st.fe
             /\ file' = u.st.f
             /\ last' = [ NoRecording EXCEPT
                            !.chosen = [ k \in DOMAIN last.chosen |->
                                           IF k \in DOMAIN new_settings
                                           THEN new_settings[k]
                                           ELSE last.chosen[k] ] ]
    /\ UNCHANGED <<now, connected, disk, pending_watering, tasks>>

\* start_watering after its first await (lines 379-420): water_plant and the
\* sensor read for the report
ResumeStartWatering(t) ==
    /\ tasks[t].pc = "start_watering"
    /\ \E a \in ActuatorOutcomes :
         \E s2 \in (IF nodemcu_water_plant(connected, a) THEN ReportSensorOutcomes
                    ELSE {CHOOSE x \in ReportSensorOutcomes : TRUE}) :
            LET base == LoadAtRecord(tasks[t].held,
                                     [fe |-> file_exists, f |-> file])
                w    == start_watering(base.fe, base.f, connected, a, s2, now)
                wr   == Saved(base.fe, base.f, w.fe, w.f)
                st   == Store(wr, file_exists, file, w.f, disk)
            IN  /\ file_exists' = st.fe
                /\ file' = st.f
                /\ connected' = w.conn
                /\ last' = [ NoRecording EXCEPT
                               !.success = w.success,
                               !.stale = tasks[t].seen # last.waterings,
                               !.held_changed =
                                   LoadFrom(tasks[t].held.fe, tasks[t].held.f)
                                       ["watering_duration"]
                                     # load_config["watering_duration"],
                               !.waterings = IF w.success THEN @ + 1 ELSE @ ]
    /\ tasks' = [tasks EXCEPT ![t] = IdleTask]
    /\ UNCHANGED <<now, disk, pending_watering>>

\* main(): as Init, with every handler slot free
InitInterleave ==
    /\ now = 0
    /\ connected \in BOOLEAN
    /\ file_exists = FALSE
    /\ file = DEFAULT_CONFIG
    /\ disk = "ok"
    /\ tasks = [t \in Tasks |-> IdleTask]
    /\ pending_watering = << >>
    /\ last = [ success |-> FALSE, stale |-> FALSE,
                held_changed |-> FALSE, waterings |-> 0,
                chosen |-> [ watering_duration |-> DEFAULT_CONFIG["watering_duration"] ] ]

NextInterleave ==
    \E t \in Tasks :
       \/ HandlerWaterPlant(t)
       \/ HandlerYes(t)
       \/ HandlerDontAsk(t)
       \/ HandlerSetting(t)
       \/ ResumeStartWatering(t)

SpecInterleave == InitInterleave /\ [][NextInterleave]_vars

-----------------------------------------------------------------------------
(* The settings menus: autonomous mode and the watering schedule *)

\* the buttons of time_selection_menu_keyboard (lines 320-326, 924): an
\* emoji, a space, a time
TimeButtons ==
    { <<"clock9", "09:00">>, <<"clock10", "10:00">>, <<"clock11", "11:00">>,
      <<"clock7", "19:00">>, <<"clock8", "20:00">>, <<"clock9", "21:00">> }

\* text.split(' ')[1]
time_value(text) == text[2]

\* what the last handler did: the state it started from, the schedule
\* submenu the user had opened before it, the time selected
SettingsLast(op, opened, t) ==
    [ op |-> op, entry |-> Entry, opened |-> opened, time_value |-> t ]

\* the settings handler wrote new_settings through update_config
UpdateSettings(new_settings) ==
    LET u == update_config(file_exists, file, new_settings, disk)
    IN  /\ file_exists' = u.st.fe
        /\ file' = u.st.f

\* variation of EnableAuto: the mode is switched on whatever the connection
EnableAuto_unguarded(op, type) ==
    /\ UpdateSettings([auto_mode |-> TRUE, auto_mode_type |-> type])
    /\ last' = SettingsLast(op, "none", "none")

\* lines 695-743: switching the autonomous mode on needs the connection
EnableAuto(op, type) ==
    /\ IF ~connected
       THEN UNCHANGED <<file_exists, file>>
       ELSE UpdateSettings([auto_mode |-> TRUE, auto_mode_type |-> type])
    /\ last' = SettingsLast(op, "none", "none")

\* '🧠 Включить умный режим' (lines 695-718)
MsgEnableSmart ==
    /\ EnableAuto("enable_smart", "smart")
    /\ UNCHANGED <<tasks, now, connected, disk, pending_watering>>

\* '📅 Включить режим по расписанию' (lines 720-743)
MsgEnableSchedule ==
    /\ EnableAuto("enable_schedule", "schedule")
    /\ UNCHANGED <<tasks, now, connected, disk, pending_watering>>

\* lines 774-796: the type of the autonomous mode is replaced
SwitchType(op, type) ==
    /\ UpdateSettings([auto_mode_type |-> type])
    /\ last' = SettingsLast(op, "none", "none")

\* '📅 Перейти на расписание' (lines 774-785)
MsgSwitchToSchedule ==
    /\ SwitchType("switch_schedule", "schedule")
    /\ UNCHANGED <<tasks, now, connected, disk, pending_watering>>

\* '🧠 Перейти на умный режим' (lines 787-796)
MsgSwitchToSmart ==
    /\ SwitchType("switch_smart", "smart")
    /\ UNCHANGED <<tasks, now, connected, disk, pending_watering>>

\* '❌ Выключить авторежим' (lines 798-805)
MsgDisableAuto ==
    /\ UpdateSettings([auto_mode |-> FALSE])
    /\ last' = SettingsLast("disable", "none", "none")
    /\ UNCHANGED <<tasks, now, connected, disk, pending_watering>>

\* '🕘 Утреннее время' and '🕖 Вечернее время' (lines 909-921): the time
\* keyboard is shown, nothing is stored
MsgScheduleMenu ==
    /\ \E opened \in {"morning_time", "evening_time"} :
         last' = SettingsLast("schedule_menu", opened, "none")
    /\ UNCHANGED <<tasks, now, connected, file_exists, file, disk, pending_watering>>

\* variation of last_schedule_setting: the submenu opened is remembered
last_schedule_setting_remembers(opened) == opened

\* context.user_data.get('last_schedule_setting', '') (lines 928, 935): no
\* handler stores the key, whatever submenu was opened
last_schedule_setting(opened) == ""

\* lines 928-957: the field a selected time is stored in; "morning_time"
\* and "evening_time" stand for 'Утреннее время' and 'Вечернее время'
schedule_field(setting, t) ==
    IF setting = "morning_time" THEN "schedule_morning_time"
    ELSE IF setting = "evening_time" THEN "schedule_evening_time"
    ELSE IF t \in {"09:00", "10:00", "11:00"} THEN "schedule_morning_time"
    ELSE "schedule_evening_time"

\* one of the six time buttons (lines 924-957)
MsgSelectTime ==
    /\ \E text \in TimeButtons :
         LET t == time_value(text)
             k == schedule_field(last_schedule_setting(last.opened), t)
         IN  /\ UpdateSettings([ x \in {k} |-> t ])
             /\ last' = SettingsLast("select_time", last.opened, t)
    /\ UNCHANGED <<tasks, now, connected, disk, pending_watering>>

\* '🌱 Статус растения' as the settings see it: the sensor read may end the
\* connection
MsgStatusRead ==
    /\ \E s \in SensorOutcomes :
         connected' = get_sensor_data(connected, s).conn
    /\ last' = SettingsLast("status", "none", "none")
    /\ UNCHANGED <<tasks, now, file_exists, file, disk, pending_watering>>

\* main(): as Init
InitSettings ==
    /\ now = 0
    /\ connected \in BOOLEAN
    /\ file_exists = FALSE
    /\ file = DEFAULT_CONFIG
    /\ disk = "ok"
    /\ tasks = << >>
    /\ pending_watering = << >>
    /\ last = SettingsLast("start", "none", "none")

NextSettings ==
    \/ MsgEnableSmart
    \/ MsgEnableSchedule
    \/ MsgSwitchToSchedule
    \/ MsgSwitchToSmart
    \/ MsgDisableAuto
    \/ MsgScheduleMenu
    \/ MsgSelectTime
    \/ MsgStatusRead

SpecSettings == InitSettings /\ [][NextSettings]_vars

-----------------------------------------------------------------------------
(* Vocabulary of the properties *)

\* the last handler evaluated a watering request
Evaluation == last.eval.evaluated

\* the settings the last handler loaded on entry, and the settings now
EntryConfig == LoadFrom(last.entry.fe, last.entry.f)
Settings == load_config

Today == DateOf(now)

\* the skip-checks bypass was in force for today when the handler started
BypassAtEntry ==
    /\ EntryConfig["dont_ask_again_today"]
    /\ Get(EntryConfig, "dont_ask_again_date") = Today

\* the watering history of a settings record
History(cfg) ==
    << cfg["last_watering"], cfg["last_watering_date"], cfg["watering_count_today"] >>

\* a watering is on record for today in the settings the handler started from
WateredTodayAtEntry ==
    /\ EntryConfig["last_watering_date"] = Today
    /\ EntryConfig["watering_count_today"] >= 1

HoursSinceAtEntry == now - EntryConfig["last_watering"]

Rank(level) ==
    CASE level = "ok" -> 0 [] level = "info" -> 1
      [] level = "warning" -> 2 [] level = "danger" -> 3

-----------------------------------------------------------------------------
(* C1: whenever no sensor reading can be obtained, the evaluation returns  *)
(* allowed=false with severity danger, whatever the settings are, the      *)
(* skip-checks flag set for today included.  The code returns (True, ok)   *)
(* from the bypass before it reads the sensor.                             *)
C1_NoReadingAlwaysDenied ==
    (Evaluation /\ last.eval.reading = None)
        => (~last.eval.allowed /\ last.eval.level = "danger")

(* C2: whenever connected is false the evaluation returns allowed=false    *)
(* with severity danger and writes no settings: the store is exactly as    *)
(* the handler found it, a due reset of the skip flag included.            *)
C2_DisconnectedDeniedNoWrite ==
    (Evaluation /\ ~last.entry.conn)
        => /\ ~last.eval.allowed
           /\ last.eval.level = "danger"
           /\ file_exists = last.entry.fe
           /\ file = last.entry.f

\* a disconnected evaluation on a day after the one the skip flag was set on
C2_Witness ==
    /\ Evaluation
    /\ ~last.entry.conn
    /\ file_exists
    /\ file["dont_ask_again_today"]
    /\ Get(file, "dont_ask_again_date") # Today
    /\ ~last.eval.allowed

(* C3: an evaluation that obtains a sensor reading (which needs the        *)
(* connection up) returns allowed=true, with one of the four severities;   *)
(* allowed=false is returned only without a connection or a reading.       *)
C3_ReadingImpliesAllowed ==
    (Evaluation /\ last.eval.reading # None)
        => /\ last.eval.allowed
           /\ last.eval.level \in {"ok", "info", "warning", "danger"}

\* allowed with severity danger: wet soil right after a watering
C3_Witness ==
    /\ Evaluation
    /\ last.eval.reading # None
    /\ last.eval.allowed
    /\ last.eval.level = "danger"
    /\ last.eval.wet_msg
    /\ last.eval.freq_msg = "danger"

(* C4: a handler that ends without a successful actuator call (disconnected,*)
(* non-200 answer, transport exception, refused or unconfirmed request)    *)
(* leaves last_watering, last_watering_date and watering_count_today as    *)
(* they were; a successful call raises the day's count by exactly one.     *)
C4_FailedWateringKeepsHistory ==
    /\ ~last.water.success => History(Settings) = History(EntryConfig)
    /\ last.water.success =>
          Settings["watering_count_today"] =
             (IF EntryConfig["last_watering_date"] = Today
              THEN EntryConfig["watering_count_today"] ELSE 0) + 1

\* the actuator was contacted and failed, with a watering already on record
C4_Witness ==
    /\ last.water.started
    /\ last.water.called
    /\ ~last.water.success
    /\ Settings["watering_count_today"] >= 1
    /\ Settings["last_watering"] # None

(* C5: an evaluation with the connection up that finds a stored skip date  *)
(* other than today stores skip flag false and skip date today, and its    *)
(* verdict is the one of the full checks: no reading refuses, wet soil     *)
(* gives danger, a watering on record for today gives a warning.  So a     *)
(* bypass granted on day D bypasses nothing on a later day.                *)
C5_BypassDoesNotLeak ==
    (Evaluation /\ last.entry.conn
       /\ Get(EntryConfig, "dont_ask_again_date") # Today)
        => /\ file_exists
           /\ file["dont_ask_again_today"] = FALSE
           /\ Get(file, "dont_ask_again_date") = Today
           /\ last.eval.reading = None => ~last.eval.allowed
           /\ (last.eval.reading # None /\ last.eval.reading < 310)
                 => last.eval.level = "danger"
           /\ (last.eval.reading # None /\ WateredTodayAtEntry)
                 => last.eval.level # "ok"

\* the flag was set on an earlier day and the soil is wet
C5_Witness ==
    /\ Evaluation
    /\ last.entry.conn
    /\ EntryConfig["dont_ask_again_today"]
    /\ Get(EntryConfig, "dont_ask_again_date") = Today - 1
    /\ last.eval.reading = 300
    /\ last.eval.level = "danger"
    /\ file["dont_ask_again_today"] = FALSE

(* C6: with the skip flag true and the skip date today, an evaluation      *)
(* returns allowed=true with severity ok for every sensor value and every  *)
(* watering history.                                                       *)
C6_BypassOverridesChecks ==
    (Evaluation /\ BypassAtEntry /\ last.eval.reading # None)
        => (last.eval.allowed /\ last.eval.level = "ok")

\* saturated soil (raw 300) and a watering within the current hour
C6_Witness ==
    /\ Evaluation
    /\ BypassAtEntry
    /\ last.eval.reading = 300
    /\ WateredTodayAtEntry
    /\ HoursSinceAtEntry = 0
    /\ last.eval.allowed
    /\ last.eval.level = "ok"

(* C7: with no bypass, a reading with raw >= 310 and a watering on record  *)
(* for today, the verdict is allowed=true with severity danger below 6     *)
(* hours since last_watering, warning from 6 to below 12 hours, and info   *)
(* from 12 hours on.                                                       *)
C7_FrequencyBands ==
    (Evaluation /\ ~BypassAtEntry /\ last.eval.reading # None
       /\ last.eval.reading >= 310 /\ WateredTodayAtEntry)
        => /\ last.eval.allowed
           /\ HoursSinceAtEntry < 6 => last.eval.level = "danger"
           /\ (HoursSinceAtEntry >= 6 /\ HoursSinceAtEntry < 12)
                 => last.eval.level = "warning"
           /\ HoursSinceAtEntry >= 12 => last.eval.level = "info"

\* exactly 6 hours after the last watering: warning
C7_Witness ==
    /\ Evaluation
    /\ ~BypassAtEntry
    /\ last.eval.reading = 310
    /\ WateredTodayAtEntry
    /\ HoursSinceAtEntry = 6
    /\ last.eval.level = "warning"

(* C8: with no bypass and a reading, raw < 310 gives severity danger       *)
(* whatever the frequency check gave, with both messages when a frequency  *)
(* warning applies; raw >= 310 gives the frequency check's severity.  The  *)
(* severity is never below the frequency check's.                          *)
C8_MoistureOnlyRaises ==
    (Evaluation /\ ~BypassAtEntry /\ last.eval.reading # None)
        => /\ last.eval.reading < 310 =>
                 /\ last.eval.level = "danger"
                 /\ last.eval.wet_msg
                 /\ WateredTodayAtEntry => last.eval.freq_msg # "ok"
           /\ last.eval.reading >= 310 =>
                 /\ last.eval.level = last.eval.freq_msg
                 /\ ~last.eval.wet_msg
           /\ Rank(last.eval.level) >= Rank(last.eval.freq_msg)

\* wet soil together with a frequency warning of lower severity
C8_Witness ==
    /\ Evaluation
    /\ ~BypassAtEntry
    /\ last.eval.reading = 309
    /\ last.eval.freq_msg = "warning"
    /\ last.eval.wet_msg
    /\ last.eval.level = "danger"

(* C9: with no bypass, raw >= 310 and no watering on record for today      *)
(* (none at all, or the last one on another day), the verdict is           *)
(* allowed=true with severity ok and no frequency warning, whatever the    *)
(* hours elapsed and the stored counter.                                   *)
C9_OtherDayNoWarning ==
    (Evaluation /\ ~BypassAtEntry /\ last.eval.reading # None
       /\ last.eval.reading >= 310
       /\ EntryConfig["last_watering_date"] # Today)
        => /\ last.eval.allowed
           /\ last.eval.level = "ok"
           /\ last.eval.freq_msg = "ok"

\* watered 3 hours ago, on the previous day, twice that day
C9_Witness ==
    /\ Evaluation
    /\ ~BypassAtEntry
    /\ last.eval.reading = 310
    /\ EntryConfig["last_watering_date"] = Today - 1
    /\ HoursSinceAtEntry = 3
    /\ EntryConfig["watering_count_today"] = 2
    /\ last.eval.level = "ok"

(* C10: a successful watering stores last_watering = now,                  *)
(* last_watering_date = today and the counter 1 when the stored date was   *)
(* not today, the stored counter plus 1 when it was; load returns the      *)
(* stored values.                                                          *)
C10_RecordWatering ==
    last.water.success
        => /\ file_exists
           /\ file["last_watering"] = now
           /\ file["last_watering_date"] = Today
           /\ EntryConfig["last_watering_date"] # Today
                 => file["watering_count_today"] = 1
           /\ EntryConfig["last_watering_date"] = Today
                 => file["watering_count_today"] =
                       EntryConfig["watering_count_today"] + 1
           /\ History(load_config) = History(file)

\* the first watering of a day after a day with two waterings
C10_Witness ==
    /\ last.water.success
    /\ EntryConfig["last_watering_date"] = Today - 1
    /\ EntryConfig["watering_count_today"] = 2
    /\ file["watering_count_today"] = 1

(* C11: the duration handed to the actuator for a manual watering, and the *)
(* stored watering_duration, is always one of 3, 5, 10 seconds, also when  *)
(* the request is the free text '💦 Полить <N> сек'.  The code hands any    *)
(* parsed N to the actuator.                                               *)
C11_DurationEnumerated ==
    /\ last.water.called => last.water.duration \in {3, 5, 10}
    /\ Settings["watering_duration"] \in {3, 5, 10}

(* C12: whenever the settings are read on a day other than the stored      *)
(* last_watering_date, the watering_count_today the reader observes, the   *)
(* 'waterings today' figure of the plant status report for one, is 0.      *)
(* load_config returns the stored counter as it is.                        *)
C12_CounterResetAtRead ==
    (last.report.shown /\ EntryConfig["last_watering_date"] # Today)
        => last.report.waterings_today = 0

(* C13: the actuator is triggered only at once by a request whose          *)
(* evaluation returned allowed with severity ok, or by 'yes' / 'don't ask  *)
(* again today' on a pending request, which only an evaluation that        *)
(* returned allowed with info, warning or danger creates; a refused        *)
(* request starts nothing and a cancelled request is no longer pending.    *)
C13_TriggerStep ==
    /\ last'.water.called
          => \/ /\ last'.op \in {"water_plant", "water_n"}
                /\ last'.eval.evaluated
                /\ last'.eval.allowed
                /\ last'.eval.level = "ok"
                /\ pending_watering' = pending_watering
             \/ /\ last'.op \in {"yes", "dont_ask"}
                /\ pending_watering # << >>
                /\ pending_watering[1].warning_level \in {"info", "warning", "danger"}
                /\ last'.water.duration = pending_watering[1].duration
                /\ pending_watering' = << >>
    /\ (pending_watering' # pending_watering /\ pending_watering' # << >>)
          => /\ last'.op \in {"water_plant", "water_n"}
             /\ last'.eval.allowed
             /\ last'.eval.level \in {"info", "warning", "danger"}
             /\ pending_watering'[1].warning_level = last'.eval.level
             /\ ~last'.water.started
    /\ (last'.eval.evaluated /\ ~last'.eval.allowed)
          => (~last'.water.started /\ pending_watering' = pending_watering)
    /\ last'.op \in {"cancel", "no"}
          => (~last'.water.started /\ pending_watering' = << >>)

C13_ActuatorOnlyWhenOkOrConfirmed == [][C13_TriggerStep]_vars

\* a confirmed watering of a request that drew a danger warning
C13_Witness ==
    /\ last.op = "yes"
    /\ last.water.called
    /\ last.water.success
    /\ WateredTodayAtEntry
    /\ HoursSinceAtEntry < 6

(* C14: every write of the persisted settings goes through update_config;  *)
(* no other function calls save_config.  check_watering_restrictions,      *)
(* water_plant and the confirmation handler call save_config themselves.   *)
C14_UpdateSoleWriter ==
    last.writers \subseteq {"update_config"}

-----------------------------------------------------------------------------
(* Properties of the sensor reading *)

\* the raw value of the reading the last report was made from
Raw == last.eval.reading

BandRank(status) ==
    CASE status = "TOO_WET" -> 0 [] status = "OVERWATERED" -> 1
      [] status = "MOIST" -> 2 [] status = "IDEAL" -> 3
      [] status = "NORMAL" -> 4 [] status = "DRY" -> 5
      [] status = "VERY_DRY" -> 6

(* C17: get_moisture_status gives every raw value exactly one of seven     *)
(* bands: >= 530 VERY DRY, 430..529 DRY, 350..429 NORMAL, 320..349 IDEAL,  *)
(* 310..319 MOIST, 305..309 OVERWATERED, < 305 TOO WET; each boundary is   *)
(* in the band it is the lower bound of, and the band never goes down as   *)
(* the raw value goes up.                                                  *)
C17_SevenBands ==
    last.report.shown
        => /\ last.report.status \in {"VERY_DRY", "DRY", "NORMAL", "IDEAL",
                                      "MOIST", "OVERWATERED", "TOO_WET"}
           /\ last.report.status = "VERY_DRY" <=> Raw >= 530
           /\ last.report.status = "DRY" <=> (Raw >= 430 /\ Raw <= 529)
           /\ last.report.status = "NORMAL" <=> (Raw >= 350 /\ Raw <= 429)
           /\ last.report.status = "IDEAL" <=> (Raw >= 320 /\ Raw <= 349)
           /\ last.report.status = "MOIST" <=> (Raw >= 310 /\ Raw <= 319)
           /\ last.report.status = "OVERWATERED" <=> (Raw >= 305 /\ Raw <= 309)
           /\ last.report.status = "TOO_WET" <=> Raw < 305
           /\ \A r2 \in 0..MaxRaw :
                 r2 >= Raw => BandRank(get_moisture_status(r2))
                                 >= BandRank(last.report.status)

\* a report of the boundary value 430
C17_Witness ==
    /\ last.report.shown
    /\ Raw = 430
    /\ last.report.status = "DRY"

(* C19: the moisture percent of a reading is an integer in 0..100: 0 for   *)
(* raw >= 750, 100 for raw <= 305, the truncated (750 - raw) * 100 / 445   *)
(* in between, and it never increases as raw increases.                    *)
C19_MoisturePercent ==
    last.report.shown
        => /\ last.report.percent \in 0..100
           /\ Raw >= 750 => last.report.percent = 0
           /\ Raw <= 305 => last.report.percent = 100
           /\ (Raw > 305 /\ Raw < 750)
                 => /\ last.report.percent * 445 <= (750 - Raw) * 100
                    /\ (last.report.percent + 1) * 445 > (750 - Raw) * 100
           /\ \A r2 \in 0..MaxRaw :
                 r2 >= Raw => moisture_percent(r2) <= last.report.percent

\* 250 * 100 / 445 = 56.18 is reported as 56
C19_Witness ==
    /\ last.report.shown
    /\ Raw = 500
    /\ last.report.percent = 56

-----------------------------------------------------------------------------
(* Properties of the settings store *)

\* the store the last operation found holds a JSON object
EntryReadable == last.entry.fe /\ last.entry.f # Unreadable

(* C15: load returns the defaults when config.json is absent or            *)
(* unreadable; when it holds only some keys, every key present keeps its   *)
(* stored value and exactly the missing default keys get their default     *)
(* value; the record returned always has every default key.                *)
C15_LoadFillsDefaults ==
    last.op \in {"load", "round_trip"}
        => /\ (DOMAIN DEFAULT_CONFIG) \subseteq (DOMAIN last.result)
           /\ ~EntryReadable => last.result = DEFAULT_CONFIG
           /\ EntryReadable
                 => /\ DOMAIN last.result =
                          (DOMAIN last.entry.f) \cup (DOMAIN DEFAULT_CONFIG)
                    /\ \A k \in DOMAIN last.entry.f :
                          last.result[k] = last.entry.f[k]
                    /\ \A k \in (DOMAIN DEFAULT_CONFIG) \ (DOMAIN last.entry.f) :
                          last.result[k] = DEFAULT_CONFIG[k]

\* a load of a config.json holding two keys, one of them no default key
C15_Witness ==
    /\ last.op = "load"
    /\ last.entry.fe
    /\ DOMAIN last.entry.f = {"watering_duration", "dont_ask_again_date"}
    /\ last.result["watering_duration"] = 5
    /\ last.result["dont_ask_again_date"] = 0
    /\ last.result["auto_mode_type"] = "smart"
    /\ last.result["last_watering"] = None

(* C18: after save(load()) a load returns the record that was saved; on a  *)
(* store that a save(load()) left, save(load()) changes nothing, so twice  *)
(* is the same as once; the first round fills the missing default keys of  *)
(* a stored record and keeps what it held.                                 *)
C18_RoundTrip ==
    last.op = "round_trip"
        => /\ file_exists
           /\ load_config = last.result
           /\ file = last.result
           /\ last.rounds >= 2
                 => (file = last.entry.f /\ last.entry.fe)
           /\ EntryReadable
                 => /\ (DOMAIN DEFAULT_CONFIG) \subseteq (DOMAIN file)
                    /\ \A k \in DOMAIN last.entry.f : file[k] = last.entry.f[k]

\* the second round trip on a record that lacked default keys, null
\* values among those filled in
C18_Witness ==
    /\ last.op = "round_trip"
    /\ last.rounds = 2
    /\ DOMAIN file = (DOMAIN DEFAULT_CONFIG) \cup {"dont_ask_again_date"}
    /\ file["watering_duration"] = 5
    /\ file["last_watering"] = None
    /\ file["auto_mode"] = FALSE

-----------------------------------------------------------------------------
(* Properties of the program on a failing disk *)

\* the last handler called save_config and the save failed
FailedSave == last.writers # {} /\ disk # "ok"

\* a failed save leaves the persisted record as the handler found it: a
\* load returns what it returned before
FailedSaveKeepsStore ==
    FailedSave => load_config = EntryConfig

\* update_config returns the loaded record with the override applied
UpdateReturnsMerged ==
    last.op = "notifications"
        => last.returned =
              [EntryConfig EXCEPT !["notifications"] = ~EntryConfig["notifications"]]

\* an evaluation on a new day decides with the skip flag reset, written or
\* not: the checks are not bypassed
ResetDecidesInMemory ==
    (Evaluation /\ last.entry.conn /\ Get(EntryConfig, "dont_ask_again_date") # Today)
        => /\ last.eval.reading = None => ~last.eval.allowed
           /\ (last.eval.reading # None /\ last.eval.reading < 310)
                 => last.eval.level = "danger"

\* water_plant reports the success of a watering whose record it tried to
\* save
UnsavedWateringSucceeds ==
    "water_plant" \in last.writers => last.water.success

(* C16: a failed save returns false without raising and leaves the         *)
(* persisted record as it was; update still returns the merged record; an  *)
(* evaluation whose skip reset could not be written decides on the reset   *)
(* flag; a successful watering is reported successful although its history *)
(* was not persisted.  open(CONFIG_FILE, 'w') truncates config.json before *)
(* the write fails.                                                        *)
C16_PersistenceFailureTolerated ==
    /\ FailedSaveKeepsStore
    /\ UpdateReturnsMerged
    /\ ResetDecidesInMemory
    /\ UnsavedWateringSucceeds

-----------------------------------------------------------------------------
(* Properties of repeated evaluations *)

\* the last evaluation left every key but the skip flag and the skip date
\* as it found it
EvaluationFrame ==
    last.cur.evaluated
        => /\ file_exists = last.cur.entry.fe
           /\ (DOMAIN file) \ {"dont_ask_again_date"} =
                 (DOMAIN last.cur.entry.f) \ {"dont_ask_again_date"}
           /\ \A k \in (DOMAIN file) \ {"dont_ask_again_today", "dont_ask_again_date"} :
                 file[k] = last.cur.entry.f[k]

\* the last two evaluations were on the same day with the same sensor input
SameDaySameInput ==
    /\ last.prev.evaluated
    /\ last.cur.evaluated
    /\ DateOf(last.prev.time) = DateOf(last.cur.time)
    /\ last.prev.sensor = last.cur.sensor

\* the last evaluation wrote nothing
NoFurtherChange ==
    file_exists = last.cur.entry.fe /\ file = last.cur.entry.f

\* the frequency band of hour t: how long ago the last watering of that day
\* was
FrequencyBand(t) ==
    IF file["last_watering_date"] = DateOf(t) /\ file["watering_count_today"] >= 1
    THEN IF t - file["last_watering"] < 6 THEN "under 6"
         ELSE IF t - file["last_watering"] < 12 THEN "under 12"
         ELSE "12 or more"
    ELSE "none today"

(* C20 as stated: an evaluation changes nothing in the settings but the    *)
(* skip flag and the skip date, and a second evaluation on the same day    *)
(* with the same sensor input returns the same severity and writes no      *)
(* further change.  The severity goes down as the hours since the last     *)
(* watering pass.                                                          *)
C20_SecondEvaluationSameSeverity ==
    /\ EvaluationFrame
    /\ SameDaySameInput
          => (last.cur.level = last.prev.level /\ NoFurtherChange)

(* C20 amended: an evaluation changes nothing in the settings but the skip *)
(* flag and the skip date; a second evaluation on the same day with the    *)
(* same sensor input writes no further change, and returns the same        *)
(* severity when the time since the last watering is in the same frequency *)
(* band at both evaluations.                                               *)
C20_SecondEvaluationSameBand ==
    /\ EvaluationFrame
    /\ SameDaySameInput
          => /\ NoFurtherChange
             /\ FrequencyBand(last.prev.time) = FrequencyBand(last.cur.time)
                   => last.cur.level = last.prev.level

\* two evaluations hours apart, both more than 12 hours after the watering
\* of the day, the first of them having written the skip reset
C20_Witness ==
    /\ last.op = "evaluate"
    /\ SameDaySameInput
    /\ last.cur.time > last.prev.time
    /\ last.prev.level = "info"
    /\ last.cur.level = "info"
    /\ file["dont_ask_again_date"] = DateOf(last.cur.time)

-----------------------------------------------------------------------------
(* Properties of the confirmation steps *)

\* the skip flag is set for the day of hour t in a settings record
SkipSetFor(cfg, t) ==
    cfg["dont_ask_again_today"] /\ Get(cfg, "dont_ask_again_date") = DateOf(t)

\* the step is a watering request
RequestStep == last'.op \in {"water_plant", "water_n"}

\* 'don't ask again today' with a watering pending: flag and date stored,
\* the pending watering started; with none pending: nothing stored, nothing
\* started
DontAskStep ==
    last'.op = "dont_ask"
        => IF pending_watering # << >>
           THEN /\ SkipSetFor(LoadFrom(file_exists', file'), now)
                /\ last'.water.started
                /\ last'.water.duration = pending_watering[1].duration
                /\ pending_watering' = << >>
           ELSE /\ file_exists' = file_exists
                /\ file' = file
                /\ ~last'.water.started

\* once set, the flag stays set for the rest of the day
SkipStaysSet ==
    (SkipSetFor(load_config, now) /\ DateOf(now') = DateOf(now))
        => SkipSetFor(LoadFrom(file_exists', file'), now')

(* C21 as stated: 'don't ask again today' with a watering pending sets the *)
(* skip flag with today's date and starts the pending watering, and every  *)
(* later watering request of that day starts watering without a            *)
(* confirmation step; with nothing pending it changes no setting and       *)
(* starts no watering.  A request made while the controller is not         *)
(* connected is refused, flag or no flag.                                  *)
C21_SkipStartsEveryRequestStep ==
    /\ DontAskStep
    /\ SkipStaysSet
    /\ (SkipSetFor(load_config, now) /\ RequestStep)
          => (last'.water.started /\ pending_watering' = pending_watering)

C21_SkipStartsEveryRequest == [][C21_SkipStartsEveryRequestStep]_vars

(* C21 amended: as stated, for the later requests made while connected is  *)
(* true; a later request made while connected is false is refused and      *)
(* starts nothing.                                                         *)
C21_SkipStartsConnectedRequestStep ==
    /\ DontAskStep
    /\ SkipStaysSet
    /\ (SkipSetFor(load_config, now) /\ RequestStep)
          => /\ pending_watering' = pending_watering
             /\ connected => (last'.water.started /\ last'.eval.level = "ok")
             /\ ~connected => (~last'.water.started /\ ~last'.eval.allowed)

C21_SkipStartsConnectedRequest == [][C21_SkipStartsConnectedRequestStep]_vars

\* a request watered at once under the flag, the soil saturated and the
\* last watering less than 6 hours ago
C21_Witness ==
    /\ last.op = "water_plant"
    /\ BypassAtEntry
    /\ last.water.success
    /\ WateredTodayAtEntry
    /\ HoursSinceAtEntry < 6
    /\ last.eval.reading = 309

-----------------------------------------------------------------------------
(* Properties of the watering history *)

\* timestamp and date are both unset, or both set, the date being the date
\* of the timestamp and the counter at least 1
HistoryConsistent(cfg) ==
    /\ cfg["last_watering"] = None <=> cfg["last_watering_date"] = None
    /\ cfg["last_watering"] # None
          => /\ cfg["last_watering_date"] = DateOf(cfg["last_watering"])
             /\ cfg["watering_count_today"] >= 1

\* the counter counts the successful waterings of the date on record: a
\* successful watering makes it 1 on a new date and adds 1 on the same
\* date, and no other step touches the history
CounterCountsWaterings ==
    LET before == load_config
        after  == LoadFrom(file_exists', file')
    IN  IF last'.water.success
        THEN /\ after["last_watering_date"] = DateOf(now)
             /\ after["watering_count_today"] =
                   IF before["last_watering_date"] = DateOf(now)
                   THEN before["watering_count_today"] + 1
                   ELSE 1
        ELSE History(after) = History(before)

(* C22: from the default settings on, last_watering and last_watering_date *)
(* are both unset or both set with the date that of the timestamp; when    *)
(* set, watering_count_today is at least 1 and is the number of successful *)
(* waterings recorded on that date; the frequency check never meets a      *)
(* same-day date without a timestamp.                                      *)
C22_HistoryStep ==
    /\ HistoryConsistent(load_config)
    /\ HistoryConsistent(LoadFrom(file_exists', file'))
    /\ CounterCountsWaterings
    /\ last'.eval.level # "raise"

C22_HistoryConsistent == [][C22_HistoryStep]_vars

\* the second watering of the second day
C22_Witness ==
    /\ last.water.success
    /\ Today = 1
    /\ EntryConfig["last_watering_date"] = 1
    /\ EntryConfig["watering_count_today"] = 1
    /\ Settings["watering_count_today"] = 2

-----------------------------------------------------------------------------
(* Properties of the pending request *)

ConfirmStep == last'.op \in {"yes", "dont_ask"}

\* a cancellation removes the pending request and calls no actuator; a
\* confirmation with nothing pending calls no actuator; a warned request
\* becomes the one pending request
PendingReplacedOrRemoved ==
    /\ Len(pending_watering') <= 1
    /\ last'.op \in {"cancel", "no"}
          => (pending_watering' = << >> /\ ~last'.water.started)
    /\ (ConfirmStep /\ pending_watering = << >>)
          => (pending_watering' = << >> /\ ~last'.water.started)
    /\ (RequestStep /\ last'.eval.allowed
          /\ last'.eval.level \in {"info", "warning", "danger"})
          => /\ Len(pending_watering') = 1
             /\ pending_watering'[1].warning_level = last'.eval.level
             /\ ~last'.water.started

(* C23 as stated: a confirmation removes the pending request before the    *)
(* watering starts and triggers exactly one actuator call; a cancellation  *)
(* removes it without an actuator call; a confirmation with nothing        *)
(* pending triggers none; a new warned request replaces the pending one.   *)
(* A confirmation given while the controller is not connected triggers no  *)
(* actuator call.                                                          *)
C23_ConfirmationCallsOnceStep ==
    /\ PendingReplacedOrRemoved
    /\ (ConfirmStep /\ pending_watering # << >>)
          => /\ pending_watering' = << >>
             /\ last'.water.started
             /\ last'.water.duration = pending_watering[1].duration
             /\ last'.water.called

C23_ConfirmationCallsOnce == [][C23_ConfirmationCallsOnceStep]_vars

(* C23 amended: as stated, but the confirmation triggers exactly one       *)
(* actuator call when connected is true and none when it is false; the     *)
(* pending request is removed in both cases.                               *)
C23_ConfirmationConsumesStep ==
    /\ PendingReplacedOrRemoved
    /\ (ConfirmStep /\ pending_watering # << >>)
          => /\ pending_watering' = << >>
             /\ last'.water.started
             /\ last'.water.duration = pending_watering[1].duration
             /\ last'.water.called <=> connected

C23_ConfirmationConsumes == [][C23_ConfirmationConsumesStep]_vars

\* 'don't ask again today' consumed the pending request and the device
\* refused the one call
C23_Witness ==
    /\ last.op = "dont_ask"
    /\ last.water.called
    /\ ~last.water.success
    /\ pending_watering = << >>

-----------------------------------------------------------------------------
(* Properties of the connected flag *)

(* C24: connected never becomes true after start-up; while it is false     *)
(* every evaluation returns allowed=false and every water_plant fails      *)
(* without contacting the device; a failed actuator call leaves the flag   *)
(* as it was.                                                              *)
C24_ConnectionStep ==
    /\ connected' => connected
    /\ ~connected
          => /\ last'.eval.evaluated
                   => (~last'.eval.allowed /\ last'.eval.level = "danger")
             /\ last'.water.started
                   => (~last'.water.called /\ ~last'.water.success)
    /\ (last'.water.called /\ ~last'.water.success)
          => connected' = connected

C24_ConnectionLossPermanent == [][C24_ConnectionStep]_vars

\* a request refused for want of a connection on a day that saw a watering:
\* the connection was lost on the way
C24_Witness ==
    /\ ~connected
    /\ ~last.entry.conn
    /\ Evaluation
    /\ ~last.eval.allowed
    /\ WateredTodayAtEntry

-----------------------------------------------------------------------------
(* Properties of interleaved handlers *)

\* a watering handler resumed after another handler recorded a watering and
\* after a settings handler changed the duration it had loaded
InterleavedWatering ==
    /\ last.success
    /\ last.stale
    /\ last.held_changed

\* every successful watering raised today's counter by one
NoWateringLost == load_config["watering_count_today"] = last.waterings

\* the settings are the ones the settings handlers chose last
NoSettingLost ==
    \A k \in DOMAIN last.chosen : load_config[k] = last.chosen[k]

\* C25: with handlers interleaved at their awaits no update of config.json
\* is lost: the counter of today's waterings equals the number of successful
\* waterings (two interleaved ones raise it by 2), and a setting changed by
\* one handler is not overwritten by another handler's older record
C25_NoLostUpdate == NoWateringLost /\ NoSettingLost

\* C25 witness: the second of two interleaved successful waterings was
\* recorded, by a handler that held a record older than a changed setting
C25_Witness ==
    /\ InterleavedWatering
    /\ load_config["watering_count_today"] = 2

-----------------------------------------------------------------------------
(* Properties of the watering schedule *)

MorningTimes == {"09:00", "10:00", "11:00"}
EveningTimes == {"19:00", "20:00", "21:00"}

\* the last handler stored a selected time
TimeSelected == last.op = "select_time"

\* a morning time went to the morning field, any other time to the evening
\* field, and the other field is as it was
StoredByValue ==
    IF last.time_value \in MorningTimes
    THEN /\ Settings["schedule_morning_time"] = last.time_value
         /\ Settings["schedule_evening_time"] = EntryConfig["schedule_evening_time"]
    ELSE /\ Settings["schedule_evening_time"] = last.time_value
         /\ Settings["schedule_morning_time"] = EntryConfig["schedule_morning_time"]

-----------------------------------------------------------------------------
(* Properties of the autonomous mode *)

StoreAsAtEntry == file_exists = last.entry.fe /\ file = last.entry.f

\* the last handler was one of the two that switch the mode on
EnableStep == last.op \in {"enable_smart", "enable_schedule"}

EnabledType == IF last.op = "enable_smart" THEN "smart" ELSE "schedule"

SwitchStep == last.op \in {"switch_smart", "switch_schedule"}

SwitchedType == IF last.op = "switch_smart" THEN "smart" ELSE "schedule"

\* C27: the mode is switched on by the two enabling handlers only and only
\* while connected, with the type of the handler; without the connection
\* they leave the settings as they are; switching the type keeps the flag,
\* switching off keeps the type, and the type is smart or schedule
C27_AutoModeNeedsConnection ==
    /\ Settings["auto_mode_type"] \in {"smart", "schedule"}
    /\ (Settings["auto_mode"] /\ ~EntryConfig["auto_mode"])
          => (EnableStep /\ last.entry.conn)
    /\ EnableStep =>
          IF last.entry.conn
          THEN Settings["auto_mode"] /\ Settings["auto_mode_type"] = EnabledType
          ELSE StoreAsAtEntry
    /\ SwitchStep =>
          /\ Settings["auto_mode"] = EntryConfig["auto_mode"]
          /\ Settings["auto_mode_type"] = SwitchedType
    /\ last.op = "disable" =>
          /\ ~Settings["auto_mode"]
          /\ Settings["auto_mode_type"] = EntryConfig["auto_mode_type"]

\* C27 witness: the schedule mode was switched on, with the connection, from
\* settings that had the mode off and the smart type
C27_Witness ==
    /\ last.op = "enable_schedule"
    /\ last.entry.conn
    /\ ~EntryConfig["auto_mode"]
    /\ EntryConfig["auto_mode_type"] = "smart"
    /\ Settings["auto_mode"]
    /\ Settings["auto_mode_type"] = "schedule"

====
